---- MODULE Spec2Model ----
(***************************************************************************)
(* Model of the rendertron rendering pipeline: Renderer.serialize (full    *)
(* and preview) and Renderer.screenshot of src/src/renderer.ts.            *)
(*                                                                         *)
(* One request is one call of serialize or screenshot.  Every await of the *)
(* code is one action: the action performs the operation that was awaited  *)
(* and then everything the code does synchronously up to the next await.   *)
(* What the browser engine and the target page contribute (response        *)
(* events, the result of the navigation, the DOM an evaluation sees, an    *)
(* operation being rejected by the engine) is drawn with \E.               *)
(***************************************************************************)
EXTENDS Integers, Sequences, FiniteSets, TLC

(***************************************************************************)
(* Bounds of the model.                                                    *)
(***************************************************************************)
\* longest attribute content served by a page
MaxLen == 3
\* most response events delivered on one page
MaxEvents == 2

(***************************************************************************)
(* Values.                                                                 *)
(***************************************************************************)
\* a DOM query that matches nothing, a response header that is not there
Absent == "absent"
\* JavaScript null where a string is expected
Null == "null"

\* strings are sequences of one-character strings
StringsOver(alphabet) == UNION {[1..n -> alphabet] : n \in 0..MaxLen}

\* numbers as the in-page callbacks produce them, with NaN and undefined
Num(n) == [kind |-> "number", val |-> n]
NaN == [kind |-> "NaN", val |-> 0]
Undefined == [kind |-> "undefined", val |-> 0]

\* network-layer statuses the engine reports
Statuses == {200, 304, 500}
\* values of the metadata-flavor response header
Flavors == {Absent, "Google", "google"}
\* puppeteer.Response, reduced to what the renderer reads of it
Responses == [isNull : {FALSE}, status : Statuses, flavor : Flavors]
\* the initial value of the local variable response (lines 91, 338)
NullResponse == [isNull |-> TRUE, status |-> 0, flavor |-> Absent]

(***************************************************************************)
(* The status override (lines 125-144).                                    *)
(*                                                                         *)
(* parseInt(string) with no radix, as the in-page callback of line 133     *)
(* calls it: leading white space is skipped, one sign is taken, a 0x       *)
(* prefix selects radix 16, the longest prefix of digits is converted and  *)
(* the rest ignored; no digit at all gives NaN.                            *)
(***************************************************************************)
\* characters a render:status_code content is made of
StatusChars == {"0", "4", "a", "x", "-", " "}
\* what a query for one element finds: nothing, or the element with the
\* attribute the code reads of it (a missing attribute reads as '')
NoElement == [present |-> FALSE, content |-> <<>>]
Element(content) == [present |-> TRUE, content |-> content]
ElementsOver(contents) == {NoElement} \cup {Element(c) : c \in contents}
\* what querying meta[name="render:status_code"] can find
StatusMetas == ElementsOver(StringsOver(StatusChars))

DigitValue(c) ==
  CASE c = "0" -> 0
    [] c = "4" -> 4
    [] c = "a" -> 10
    [] OTHER -> 99

RECURSIVE SkipWhite(_)
SkipWhite(s) ==
  IF s # <<>> /\ Head(s) = " " THEN SkipWhite(Tail(s)) ELSE s

RECURSIVE DigitPrefix(_, _)
DigitPrefix(s, radix) ==
  IF s # <<>> /\ DigitValue(Head(s)) < radix
  THEN <<Head(s)>> \o DigitPrefix(Tail(s), radix)
  ELSE <<>>

RECURSIVE DigitsValue(_, _, _)
DigitsValue(s, radix, acc) ==
  IF s = <<>> THEN acc
  ELSE DigitsValue(Tail(s), radix, acc * radix + DigitValue(Head(s)))

ParseInt(str) ==
  LET s1 == SkipWhite(str)
      neg == s1 # <<>> /\ Head(s1) = "-"
      s2 == IF neg THEN Tail(s1) ELSE s1
      hex == Len(s2) >= 2 /\ s2[1] = "0" /\ s2[2] = "x"
      radix == IF hex THEN 16 ELSE 10
      s3 == IF hex THEN Tail(Tail(s2)) ELSE s2
      digits == DigitPrefix(s3, radix)
      n == DigitsValue(digits, radix, 0)
  IN IF digits = <<>> THEN NaN ELSE IF neg THEN Num(0 - n) ELSE Num(n)

\* JavaScript truthiness of what the status lookup yields
Truthy(v) == v.kind = "number" /\ v.val # 0

\* lines 129-134: a missing element rejects $eval and the catch turns that
\* into undefined; a missing content attribute reads as ''
StatusLookup(meta) ==
  IF meta.present THEN ParseInt(meta.content) ELSE Undefined

\* a renderer that hands 304 through
Normalize304_Kept(status) == status

\* lines 137-139: 304 Not Modified is treated as 200 OK
Normalize304(status) == IF status = 304 THEN 200 ELSE status

\* a renderer that honours the meta tag whatever the baseline is
OverrideStatus_AnyBaseline(netStatus, newStatusCode) ==
  IF Truthy(newStatusCode) THEN newStatusCode.val ELSE Normalize304(netStatus)

\* a renderer that never honours the meta tag
OverrideStatus_Never(netStatus, newStatusCode) == Normalize304(netStatus)

\* lines 137-144: the status serialize reports
OverrideStatus(netStatus, newStatusCode) ==
  IF Normalize304(netStatus) = 200 /\ Truthy(newStatusCode)
  THEN newStatusCode.val
  ELSE Normalize304(netStatus)

\* a guard that compares with the wrong spelling
IsMetadataFlavor_Lowercase(resp) == resp.flavor = "google"

\* lines 120, 355: the cloud-metadata guard
IsMetadataFlavor(resp) == resp.flavor = "Google"

(***************************************************************************)
(* The custom header (lines 146-164, 188).                                 *)
(***************************************************************************)
\* characters a render:header content is made of
HeaderChars == {"k", "v", ":", " "}
\* what querying meta[name="render:header"] can find
HeaderMetas == ElementsOver(StringsOver(HeaderChars))

\* String.prototype.indexOf for one character, 0-based, -1 when not found
IndexOf(s, c) ==
  IF \E i \in 1..Len(s) : s[i] = c
  THEN (CHOOSE i \in 1..Len(s) : s[i] = c /\ \A j \in 1..(i - 1) : s[j] # c) - 1
  ELSE 0 - 1

RECURSIVE TrimEnd(_)
TrimEnd(s) ==
  IF s # <<>> /\ s[Len(s)] = " " THEN TrimEnd(SubSeq(s, 1, Len(s) - 1)) ELSE s

\* String.prototype.trim
Trim(s) == TrimEnd(SkipWhite(s))

\* a Map<string, string> is the set of its entries; the lookup yields a Map
\* or, when $eval is rejected, undefined
NoMap == [defined |-> FALSE, entries |-> {}]
MapOf(entries) == [defined |-> TRUE, entries |-> entries]

\* a callback that does not trim the two parts
ParseHeader_Untrimmed(header) ==
  LET i == IndexOf(header, ":")
  IN IF header # <<>> /\ i # 0 - 1
     THEN MapOf({<<SubSeq(header, 1, i), SubSeq(header, i + 2, Len(header))>>})
     ELSE MapOf({})


\* lines 151-163: the callback run on the first render:header meta tag
ParseHeader(header) ==
  LET i == IndexOf(header, ":")
  IN IF header # <<>> /\ i # 0 - 1
     THEN MapOf({<<Trim(SubSeq(header, 1, i)), Trim(SubSeq(header, i + 2, Len(header)))>>})
     ELSE MapOf({})

\* lines 148-164: a missing element rejects $eval, caught as undefined
HeaderLookup(meta) ==
  IF meta.present THEN ParseHeader(meta.content) ELSE NoMap

\* line 188: the Map placed in the SerializedResponse
CustomHeadersOf(lookup) == IF lookup.defined THEN lookup.entries ELSE {}

(***************************************************************************)
(* Preview extraction: the title (lines 245-269).                          *)
(***************************************************************************)
\* what an in-page callback ends with: a value, or an exception thrown in
\* the page, which rejects page.evaluate
Returns(v) == [threw |-> FALSE, val |-> v]
Throws == [threw |-> TRUE, val |-> Null]

\* the parts of a document getTitle reads: the content of the og:title and
\* twitter:title metas, document.title ('' without a title element) and
\* the innerHTML of the first h1 (Absent: no such element)
TitleDocs ==
  [og : {Absent, "", "og"}, twitter : {Absent, "", "tw"},
   title : {"", "doc"}, h1 : {Absent, "", "h1"}]

\* lines 246-268
GetTitle(d) ==
  IF d.og # Absent /\ d.og # "" THEN Returns(d.og)
  ELSE IF d.twitter # Absent /\ d.twitter # "" THEN Returns(d.twitter)
  ELSE IF d.title # "" THEN Returns(d.title)
  \* line 259 reads innerHTML of what querySelector('h1') returned
  ELSE IF d.h1 = Absent THEN Throws
  ELSE IF d.h1 # "" THEN Returns(d.h1)
  \* lines 263-266 query h1 a second time
  ELSE IF d.h1 # "" THEN Returns(d.h1)
  ELSE Returns(Null)

(***************************************************************************)
(* Preview extraction: the description (lines 271-303).                    *)
(***************************************************************************)
\* most elements of one kind in a document
MaxNodes == 2

SeqsOver(S) == UNION {[1..n -> S] : n \in 0..MaxNodes}

\* a p element: offsetParent !== null, childElementCount, textContent
Paragraphs == [visible : BOOLEAN, children : {0, 1}, text : {"", "para"}]
DescriptionDocs ==
  [og : {Absent, "", "og"}, twitter : {Absent, "tw"}, meta : {Absent, "meta"},
   paragraphs : SeqsOver(Paragraphs)]

\* lines 289-301: the first paragraph that has a layout box and a child
FirstVisibleParagraph(ps) ==
  LET hits == {i \in 1..Len(ps) : ps[i].visible /\ ps[i].children # 0}
  IN IF hits = {} THEN Null
     ELSE ps[CHOOSE i \in hits : \A j \in hits : i <= j].text

\* lines 272-302
GetDescription(d) ==
  IF d.og # Absent /\ d.og # "" THEN Returns(d.og)
  ELSE IF d.twitter # Absent /\ d.twitter # "" THEN Returns(d.twitter)
  ELSE IF d.meta # Absent /\ d.meta # "" THEN Returns(d.meta)
  ELSE Returns(FirstVisibleParagraph(d.paragraphs))

(***************************************************************************)
(* Preview extraction: the domain (lines 305-320).                         *)
(***************************************************************************)
\* a string handed to new URL(): '' and strings that are no absolute URL
\* make the constructor throw; an absolute URL has a hostname
Url(present, text, parses, origin, hostname) ==
  [present |-> present, text |-> text, parses |-> parses, origin |-> origin,
   hostname |-> hostname]
NoUrl == Url(FALSE, "", FALSE, "", <<>>)
EmptyUrl == Url(TRUE, "", FALSE, "", <<>>)
RelativeUrl == Url(TRUE, "/page", FALSE, "", <<>>)
AbsoluteUrl(text, origin, hostname) == Url(TRUE, text, TRUE, origin, hostname)

\* String.prototype.replace(pattern, '') with a string pattern: the first
\* occurrence of the pattern, wherever it is, is removed
IsAt(s, pat, i) ==
  /\ i + Len(pat) - 1 <= Len(s)
  /\ \A k \in 1..Len(pat) : s[i + k - 1] = pat[k]

ReplaceFirst(s, pat) ==
  LET at == {i \in 1..Len(s) : IsAt(s, pat, i)}
  IN IF at = {} THEN s
     ELSE LET i == CHOOSE x \in at : \A y \in at : x <= y
          IN SubSeq(s, 1, i - 1) \o SubSeq(s, i + Len(pat), Len(s))

WwwDot == <<"w", "w", "w", ".">>

\* lines 317-319: new URL(x).hostname.replace('www.', '')
HostnameOf(u) ==
  IF u.parses THEN Returns(ReplaceFirst(u.hostname, WwwDot)) ELSE Throws

\* lines 306-316: the URL the page names for itself
ChosenUrl(d) ==
  IF d.canonical.present /\ d.canonical.text # "" THEN d.canonical
  ELSE IF d.ogUrl.present /\ d.ogUrl.text # "" THEN d.ogUrl
  ELSE NoUrl

\* lines 305-320
GetDomainName(d, uri) ==
  IF ChosenUrl(d).present THEN HostnameOf(ChosenUrl(d)) ELSE HostnameOf(uri)

(***************************************************************************)
(* Preview extraction: the image (lines 192-243).                          *)
(***************************************************************************)
\* an img element: naturalWidth, naturalHeight, and src with whether it
\* contains '//'
Img(w, h, src, slashes) == [w |-> w, h |-> h, src |-> src, slashes |-> slashes]

\* lines 218-233
AddImg(img) ==
  LET ratioOk == IF img.w > img.h THEN ~(img.w > 3 * img.h)
                 ELSE ~(img.h > 3 * img.w)
  IN ratioOk /\ ~(img.h <= 50 \/ img.w <= 50)

\* Array.prototype.filter
RECURSIVE Filter(_)
Filter(imgs) ==
  IF imgs = <<>> THEN <<>>
  ELSE IF AddImg(Head(imgs)) THEN <<Head(imgs)>> \o Filter(Tail(imgs))
  ELSE Filter(Tail(imgs))

\* an image address: the text, and the origin it was rooted at ('' if none)
Address(text, origin) == [text |-> text, origin |-> origin]

\* lines 234-238
Rooted(img, uri) ==
  IF img.slashes THEN Address(img.src, "") ELSE Address(img.src, uri.origin)

\* lines 193-242
GetImg(d, uri) ==
  IF d.og # Absent /\ d.og # "" THEN Returns(Address(d.og, ""))
  ELSE IF d.link # Absent /\ d.link # "" THEN Returns(Address(d.link, ""))
  ELSE IF d.twitter # Absent /\ d.twitter # "" THEN Returns(Address(d.twitter, ""))
  ELSE IF Len(d.imgs) > 0
       THEN IF Filter(d.imgs) = <<>>
            \* line 239 reads src of imgs[0], which is undefined
            THEN Throws
            ELSE Returns(Rooted(Filter(d.imgs)[1], uri))
  ELSE Returns(Address(Null, ""))

(***************************************************************************)
(* The sanitizer (lines 47-75, 177-185).                                   *)
(***************************************************************************)
\* the elements the sanitizer looks at: tag, the type (script) or rel
\* (link) attribute, and href (base)
Node(tag, attr, href) == [tag |-> tag, attr |-> attr, href |-> href]

\* line 49: script:not([type]), script[type*="javascript"], link[rel=import]
Stripped(n) ==
  \/ n.tag = "script" /\ n.attr \in {Absent, "text/javascript"}
  \/ n.tag = "link" /\ n.attr = "import"

RECURSIVE Remaining(_)
Remaining(nodes) ==
  IF nodes = <<>> THEN <<>>
  ELSE IF Stripped(Head(nodes)) THEN Remaining(Tail(nodes))
  ELSE <<Head(nodes)>> \o Remaining(Tail(nodes))

\* lines 47-53: a document is its head and its body
StripPage(doc) == [head |-> Remaining(doc.head), body |-> Remaining(doc.body)]

\* line 68: an href is a sequence of characters and of origins
StartsWithSlash(href) == href # <<>> /\ href[1] = "/"

\* a sanitizer that prefixes the existing base href whatever it starts with
InjectBaseHref_AnyBase(doc, origin) ==
  LET bases == {i \in 1..Len(doc.head) : doc.head[i].tag = "base"}
  IN IF bases # {}
     THEN LET i == CHOOSE x \in bases : \A y \in bases : x <= y
              existingBase == doc.head[i].href
          IN [doc EXCEPT !.head[i].href = <<origin>> \o existingBase]
     ELSE [doc EXCEPT !.head = <<Node("base", Absent, <<origin>>)>> \o doc.head]


\* lines 60-75
InjectBaseHref(doc, origin) ==
  LET bases == {i \in 1..Len(doc.head) : doc.head[i].tag = "base"}
  IN IF bases # {}
     THEN LET i == CHOOSE x \in bases : \A y \in bases : x <= y
              existingBase == doc.head[i].href
          IN IF StartsWithSlash(existingBase)
             THEN [doc EXCEPT !.head[i].href = <<origin>> \o existingBase]
             ELSE doc
     ELSE [doc EXCEPT !.head = <<Node("base", Absent, <<origin>>)>> \o doc.head]

\* line 185: page.content(); the markup of a document is never ''
Content(doc) == <<doc.head, doc.body>>

(***************************************************************************)
(* The state of the renderer: one entry per request in flight.             *)
(***************************************************************************)
VARIABLES
  ctx,            \* the HTTP request each handler serves, and its answer
  service,        \* the Rendertron service: its token, its browsers
  browser,        \* the browser handle: the pages it created, those open
  pc,             \* the await each call is suspended at
  call,           \* the arguments of the call
  page,           \* the page the call opened: what was done to it
  response,       \* the local variable response (lines 91, 338)
  nav,            \* history: response events delivered, how goto settled
  statusCode,     \* the local variable statusCode (line 128)
  newStatusCode,  \* the local constant newStatusCode (line 129)
  customHeaders,  \* the local variable customHeaders (line 148)
  preview,        \* the fields of the preview result built so far
  dom,            \* the document the sanitizer works on
  seen,           \* history: what each in-page lookup found in the page
  result          \* what the call returned or threw

vars ==
  <<ctx, service, browser, pc, call, page, response, nav, statusCode, newStatusCode, customHeaders,
    preview, dom, seen, result>>

\* the local variables of serialize after the navigation
locals == <<statusCode, newStatusCode, customHeaders, preview, dom, seen>>

\* the requests in flight
Reqs == {"r1"}

NoCall == [op |-> "none", isMobile |-> FALSE, url |-> NoUrl]
NoPage ==
  [id |-> 0, opens |-> 0, closes |-> 0, viewport |-> FALSE, userAgent |-> FALSE,
   polyfills |-> 0, pending |-> 0, listener |-> FALSE, gotos |-> 0,
   evals |-> 0, shots |-> 0]
NoNav == [events |-> 0, first |-> NullResponse, settled |-> "pending"]
NoPreview ==
  [title |-> Null, description |-> Null, domain |-> <<>>,
   img |-> Address(Null, "")]
NoDom == [head |-> <<>>, body |-> <<>>]
NoTitleDoc == [og |-> Absent, twitter |-> Absent, title |-> "", h1 |-> Absent]
NoDescriptionDoc ==
  [og |-> Absent, twitter |-> Absent, meta |-> Absent, paragraphs |-> <<>>]
NoDomainDoc == [canonical |-> NoUrl, ogUrl |-> NoUrl]
NoImgDoc == [og |-> Absent, link |-> Absent, twitter |-> Absent, imgs |-> <<>>]
NothingSeen ==
  [status |-> NoElement, header |-> NoElement, title |-> NoTitleDoc,
   description |-> NoDescriptionDoc, domain |-> NoDomainDoc, img |-> NoImgDoc,
   doc |-> NoDom]
NoResult ==
  [kind |-> "none", status |-> 0, customHeaders |-> {}, content |-> <<>>,
   preview |-> NoPreview, error |-> ""]

\* lines 115, 122, 188: a SerializedResponse
Serialized(status, headers, content) ==
  [NoResult EXCEPT !.kind = "serialized", !.status = status,
                   !.customHeaders = headers, !.content = content]
\* lines 167-173: a PreviewResponse
Previewed(status, fields) ==
  [NoResult EXCEPT !.kind = "preview", !.status = status, !.preview = fields]
\* line 367: the screenshot buffer
Buffer == [NoResult EXCEPT !.kind = "buffer"]
\* a rejected call: ScreenshotError (lines 350, 357), an exception thrown
\* in the page, or an operation the engine rejects
Failure(error) == [NoResult EXCEPT !.kind = "error", !.error = error]

\* a browser that has created n pages, all of them open
PagesOpen(n) == [created |-> n, open |-> 1..n]

\* rendertron.ts lines 89-91: config.token and the token header of a
\* request are undefined when there is none
NoToken == "undefined"

\* a handler that serves no HTTP request: the renderer is called directly
NoRequest ==
  [handler |-> "none", protocol |-> <<>>, token |-> NoToken, status |-> 0]

\* rendertron.ts lines 26-34, 36-72: the service once initialize() has
\* launched its browser and built its renderer
Serving ==
  [token |-> NoToken, started |-> TRUE, browsers |-> <<"running">>,
   current |-> 1, launching |-> 0, cleanup |-> "idle", target |-> 0]

\* no call has been made
InitRenderer ==
  /\ ctx = [r \in Reqs |-> NoRequest]
  /\ browser = PagesOpen(0)
  /\ pc = [r \in Reqs |-> "idle"]
  /\ call = [r \in Reqs |-> NoCall]
  /\ page = [r \in Reqs |-> NoPage]
  /\ response = [r \in Reqs |-> NullResponse]
  /\ nav = [r \in Reqs |-> NoNav]
  /\ statusCode = [r \in Reqs |-> 0]
  /\ newStatusCode = [r \in Reqs |-> Undefined]
  /\ customHeaders = [r \in Reqs |-> NoMap]
  /\ preview = [r \in Reqs |-> NoPreview]
  /\ dom = [r \in Reqs |-> NoDom]
  /\ seen = [r \in Reqs |-> NothingSeen]
  /\ result = [r \in Reqs |-> NoResult]

Init == service = Serving /\ InitRenderer

IsSerialize(r) == call[r].op \in {"serialize", "preview"}

\* the call ends: it returns a value or rejects with an error
Finish(r, outcome) ==
  /\ result' = [result EXCEPT ![r] = outcome]
  /\ pc' = [pc EXCEPT ![r] = IF outcome.kind = "error" THEN "threw" ELSE "returned"]

\* an awaited operation is rejected by the engine (the page crashed, the
\* browser disconnected): nothing catches it, the call rejects
Rejected(r) ==
  /\ Finish(r, Failure("EngineError"))
  /\ UNCHANGED <<ctx, service, browser, call, page, response, nav, locals>>

\* lines 41, 322: serialize(requestUrl, isMobile, preview) or
\* screenshot(url, isMobile, dimensions, options) is called
Call(r, ops, urls) ==
  /\ pc[r] = "idle"
  /\ \E op \in ops, m \in BOOLEAN, u \in urls :
       call' = [call EXCEPT ![r] = [op |-> op, isMobile |-> m, url |-> u]]
  /\ pc' = [pc EXCEPT ![r] = "newPage"]
  /\ UNCHANGED <<ctx, service, browser, page, response, nav, locals, result>>

\* a browser that hands every caller the page it created first
FreshPage_Shared(b) == 1

\* lines 77, 327: the page browser.newPage() creates is a new one
FreshPage(b) == b.created + 1

\* lines 77, 327: browser.newPage() settles
NewPage(r) ==
  /\ pc[r] = "newPage"
  /\ \/ /\ browser' = [created |-> browser.created + 1,
                         open |-> browser.open \cup {FreshPage(browser)}]
        /\ page' = [page EXCEPT ![r].id = FreshPage(browser),
                                ![r].opens = @ + 1]
        /\ pc' = [pc EXCEPT ![r] = "setViewport"]
        /\ UNCHANGED <<ctx, service, call, response, nav, locals, result>>
     \/ Rejected(r)

\* a renderer whose screenshot registers the response listener too
HasListener_Always(r) == TRUE

\* lines 96-100, 338: serialize registers a response listener before the
\* navigation, screenshot registers none
HasListener(r) == IsSerialize(r)

\* lines 83-89, 334-336: the operations started without an await between
\* setViewport and goto: setUserAgent, and the three evaluateOnNewDocument
\* of serialize
Unawaited(r) ==
  (IF call[r].isMobile THEN 1 ELSE 0) + (IF IsSerialize(r) THEN 3 ELSE 0)

\* lines 81-105, 331-343: setViewport settles; the user agent, the
\* polyfill flags and the response listener follow without an await, and
\* the navigation is started while those operations are in flight
SetViewport(r) ==
  /\ pc[r] = "setViewport"
  /\ \/ /\ page' = [page EXCEPT ![r].viewport = TRUE,
                                ![r].userAgent = call[r].isMobile,
                                ![r].polyfills = IF IsSerialize(r) THEN 3 ELSE 0,
                                ![r].pending = Unawaited(r),
                                ![r].listener = HasListener(r),
                                ![r].gotos = @ + 1]
        /\ pc' = [pc EXCEPT ![r] = "goto"]
        /\ UNCHANGED <<ctx, service, browser, call, response, nav, locals, result>>
     \/ Rejected(r)

\* lines 84, 87-89, 335: the engine completes the oldest of the operations
\* nobody awaits, at any time while the page is open
OperationSettles(r) ==
  /\ page[r].pending > 0
  /\ page[r].closes = 0
  /\ page' = [page EXCEPT ![r].pending = @ - 1]
  /\ UNCHANGED <<ctx, service, browser, pc, call, response, nav, locals, result>>

\* a listener that keeps the last response instead of the first
OnResponse_Last(current, r) == r

\* lines 96-100: the response listener
OnResponse(current, r) == IF current.isNull THEN r ELSE current

\* the calls that await a navigation of the page r opened
Navigating(r) == {q \in DOMAIN pc : pc[q] = "goto" /\ page[q].id = page[r].id}

\* lines 96-100: the page r opened emits a response event during the
\* navigation; the listeners registered on that page run.
\* (After goto settles, response is read only before the next await, lines
\* 110-128, so a later event changes nothing the call reads.)
ResponseEvent(r, responses) ==
  /\ pc[r] = "goto"
  /\ nav[r].events < MaxEvents
  /\ \E resp \in responses :
       /\ nav' = [q \in DOMAIN nav |->
                    IF q \in Navigating(r)
                    THEN [nav[q] EXCEPT !.events = @ + 1,
                                        !.first = IF @.isNull THEN resp ELSE @]
                    ELSE nav[q]]
       /\ response' = [q \in DOMAIN response |->
                         IF q \in Navigating(r) /\ page[q].listener
                         THEN OnResponse(response[q], resp) ELSE response[q]]
  /\ UNCHANGED <<ctx, service, browser, pc, call, page, locals, result>>

\* a renderer without the check of line 110
AfterGoto_NoNullCheck(r, resp) ==
  IF IsMetadataFlavor(resp)
  THEN /\ pc' = [pc EXCEPT ![r] = "closeForbidden"]
       /\ UNCHANGED statusCode
  ELSE IF IsSerialize(r)
  THEN /\ pc' = [pc EXCEPT ![r] = "evalStatus"]
       /\ statusCode' = [statusCode EXCEPT ![r] = resp.status]
  ELSE /\ pc' = [pc EXCEPT ![r] = "screenshot"]
       /\ UNCHANGED statusCode

\* lines 110-128, 348-365: what the call does with response once goto
\* has settled, up to the next await
AfterGoto(r, resp) ==
  IF resp.isNull
  THEN /\ pc' = [pc EXCEPT ![r] = "closeNoResponse"]
       /\ UNCHANGED statusCode
  ELSE IF IsMetadataFlavor(resp)
  THEN /\ pc' = [pc EXCEPT ![r] = "closeForbidden"]
       /\ UNCHANGED statusCode
  ELSE IF IsSerialize(r)
  THEN /\ pc' = [pc EXCEPT ![r] = "evalStatus"]
       /\ statusCode' = [statusCode EXCEPT ![r] = resp.status]
  ELSE /\ pc' = [pc EXCEPT ![r] = "screenshot"]
       /\ UNCHANGED statusCode

\* lines 102-108, 340-346: page.goto settles: with the response of the
\* main resource, with null, or rejected (timeout, network error), which
\* is caught and leaves response as it is
Goto(r, responses) ==
  /\ pc[r] = "goto"
  /\ \E settled \in {"response", "null", "failed"} :
       \E resp \in (CASE settled = "response" -> responses
                      [] settled = "null" -> {NullResponse}
                      [] settled = "failed" -> {response[r]}) :
         /\ nav' = [nav EXCEPT ![r].settled = settled]
         /\ response' = [response EXCEPT ![r] = resp]
         /\ AfterGoto(r, resp)
  /\ UNCHANGED <<ctx, service, browser, call, page, newStatusCode, customHeaders, preview, dom, seen, result>>

\* a renderer that signals the early outcome and leaves the page open
CloseEarly_Unclosed(r) ==
  /\ pc[r] \in {"closeNoResponse", "closeForbidden"}
  /\ Finish(r, CASE IsSerialize(r) /\ pc[r] = "closeNoResponse" ->
                      Serialized(400, {}, <<>>)
                 [] IsSerialize(r) /\ pc[r] = "closeForbidden" ->
                      Serialized(403, {}, <<>>)
                 [] ~IsSerialize(r) /\ pc[r] = "closeNoResponse" ->
                      Failure("NoResponse")
                 [] ~IsSerialize(r) /\ pc[r] = "closeForbidden" ->
                      Failure("Forbidden"))
  /\ UNCHANGED <<ctx, service, browser, call, page, response, nav, locals>>


\* lines 114-115, 121-122, 349-350, 356-357: page.close() settles on the
\* no-response and the forbidden path
CloseEarly(r) ==
  /\ pc[r] \in {"closeNoResponse", "closeForbidden"}
  /\ browser' = [browser EXCEPT !.open = @ \ {page[r].id}]
  /\ page' = [page EXCEPT ![r].closes = @ + 1]
  /\ Finish(r, CASE IsSerialize(r) /\ pc[r] = "closeNoResponse" ->
                      Serialized(400, {}, <<>>)
                 [] IsSerialize(r) /\ pc[r] = "closeForbidden" ->
                      Serialized(403, {}, <<>>)
                 [] ~IsSerialize(r) /\ pc[r] = "closeNoResponse" ->
                      Failure("NoResponse")
                 [] ~IsSerialize(r) /\ pc[r] = "closeForbidden" ->
                      Failure("Forbidden"))
  /\ UNCHANGED <<ctx, service, call, response, nav, locals>>

\* lines 129-144: the lookup of the render:status_code meta settles (a
\* rejected $eval is caught, line 134, like a tag that is not there); the
\* status is normalized and overridden, and the header lookup is started
EvalStatus(r, metas) ==
  /\ pc[r] = "evalStatus"
  /\ \E meta \in metas :
       /\ seen' = [seen EXCEPT ![r].status = meta]
       /\ newStatusCode' = [newStatusCode EXCEPT ![r] = StatusLookup(meta)]
       /\ statusCode' = [statusCode EXCEPT ![r] = OverrideStatus(@, StatusLookup(meta))]
  /\ page' = [page EXCEPT ![r].evals = @ + 1]
  /\ pc' = [pc EXCEPT ![r] = "evalHeader"]
  /\ UNCHANGED <<ctx, service, browser, call, response, nav, customHeaders, preview, dom, result>>

\* lines 148-166, 178: the lookup of the render:header meta settles; the
\* preview branch starts getTitle, the other branch stripPage
EvalHeader(r, metas) ==
  /\ pc[r] = "evalHeader"
  /\ \E meta \in metas :
       /\ seen' = [seen EXCEPT ![r].header = meta]
       /\ customHeaders' = [customHeaders EXCEPT ![r] = HeaderLookup(meta)]
  /\ page' = [page EXCEPT ![r].evals = @ + 1]
  /\ pc' = [pc EXCEPT ![r] = IF call[r].op = "preview" THEN "getTitle" ELSE "stripPage"]
  /\ UNCHANGED <<ctx, service, browser, call, response, nav, statusCode, newStatusCode, preview, dom, result>>

\* one awaited extraction of the preview branch settles: its value goes in
\* the result under construction, or its exception rejects the call
Extracted(r, d, out, field, next) ==
  /\ page' = [page EXCEPT ![r].evals = @ + 1]
  /\ seen' = [seen EXCEPT ![r] = [@ EXCEPT ![field] = d]]
  /\ IF out.threw
     THEN /\ Finish(r, Failure("TypeError"))
          /\ UNCHANGED preview
     ELSE /\ preview' = [preview EXCEPT ![r] = [@ EXCEPT ![field] = out.val]]
          /\ pc' = [pc EXCEPT ![r] = next]
          /\ UNCHANGED result
  /\ UNCHANGED <<ctx, service, browser, call, response, nav, statusCode, newStatusCode, customHeaders, dom>>

\* line 168
EvalTitle(r, docs) ==
  /\ pc[r] = "getTitle"
  /\ \/ \E d \in docs : Extracted(r, d, GetTitle(d), "title", "getDescription")
     \/ Rejected(r)

\* line 169
EvalDescription(r, docs) ==
  /\ pc[r] = "getDescription"
  /\ \/ \E d \in docs : Extracted(r, d, GetDescription(d), "description", "getDomainName")
     \/ Rejected(r)

\* line 170
EvalDomainName(r, docs) ==
  /\ pc[r] = "getDomainName"
  /\ \/ \E d \in docs :
          Extracted(r, d, GetDomainName(d, call[r].url), "domain", "getImg")
     \/ Rejected(r)

\* line 171
EvalImg(r, docs) ==
  /\ pc[r] = "getImg"
  /\ \/ \E d \in docs : Extracted(r, d, GetImg(d, call[r].url), "img", "closePreview")
     \/ Rejected(r)

\* line 178: page.evaluate(stripPage) settles
EvalStripPage(r, docs) ==
  /\ pc[r] = "stripPage"
  /\ \/ /\ \E d \in docs :
             /\ seen' = [seen EXCEPT ![r].doc = d]
             /\ dom' = [dom EXCEPT ![r] = StripPage(d)]
        /\ page' = [page EXCEPT ![r].evals = @ + 1]
        /\ pc' = [pc EXCEPT ![r] = "injectBaseHref"]
        /\ UNCHANGED <<ctx, service, browser, call, response, nav, statusCode, newStatusCode, customHeaders, preview, result>>
     \/ Rejected(r)

\* lines 180-182: page.evaluate(injectBaseHref, origin) settles
EvalInjectBaseHref(r) ==
  /\ pc[r] = "injectBaseHref"
  /\ \/ /\ dom' = [dom EXCEPT ![r] = InjectBaseHref(@, call[r].url.origin)]
        /\ page' = [page EXCEPT ![r].evals = @ + 1]
        /\ pc' = [pc EXCEPT ![r] = "content"]
        /\ UNCHANGED <<ctx, service, browser, call, response, nav, statusCode, newStatusCode, customHeaders, preview, seen, result>>
     \/ Rejected(r)

\* line 185: page.content() settles
PageContent(r) ==
  /\ pc[r] = "content"
  /\ \/ /\ pc' = [pc EXCEPT ![r] = "closeFull"]
        /\ UNCHANGED <<ctx, service, browser, call, page, response, nav, locals, result>>
     \/ Rejected(r)

\* line 365: page.screenshot(options) settles
Screenshot(r) ==
  /\ pc[r] = "screenshot"
  /\ \/ /\ page' = [page EXCEPT ![r].shots = @ + 1]
        /\ pc' = [pc EXCEPT ![r] = "closeShot"]
        /\ UNCHANGED <<ctx, service, browser, call, response, nav, locals, result>>
     \/ Rejected(r)

\* lines 174-175, 187-188, 366-367: page.close() settles and the call
\* returns its result
Close(r) ==
  /\ pc[r] \in {"closePreview", "closeFull", "closeShot"}
  /\ browser' = [browser EXCEPT !.open = @ \ {page[r].id}]
  /\ page' = [page EXCEPT ![r].closes = @ + 1]
  /\ Finish(r, CASE pc[r] = "closePreview" -> Previewed(statusCode[r], preview[r])
                 [] pc[r] = "closeFull" ->
                      Serialized(statusCode[r], CustomHeadersOf(customHeaders[r]),
                                 Content(dom[r]))
                 [] pc[r] = "closeShot" -> Buffer)
  /\ UNCHANGED <<ctx, service, call, response, nav, locals>>

\* rendertron.ts lines 166-180: the status handleScreenshotRequest answers
\* with: 403 for a ScreenshotError of type Forbidden, 500 for any other
\* error, and the 200 of a response that was given a body
ScreenshotAnswer(outcome) ==
  IF outcome.kind = "error"
  THEN IF outcome.error = "Forbidden" THEN 403 ELSE 500
  ELSE 200

(***************************************************************************)
(* What the callers and the target pages supply.                           *)
(***************************************************************************)
Ops == {"serialize", "preview", "screenshot"}

WwwA == <<"w", "w", "w", ".", "a">>
\* requested URLs: valid http(s) URLs
RequestUrls ==
  {AbsoluteUrl("http://www.a/page", "http://www.a", WwwA),
   AbsoluteUrl("https://b/", "https://b", <<"b">>)}

\* documents of the life-cycle specification: one of each case
SomeStatusMetas == {NoElement, Element(<<"4", "0", "4">>)}
SomeHeaderMetas == {NoElement, Element(<<"k", ":", "v">>)}
SomeTitleDocs ==
  {d \in TitleDocs : d.og = Absent /\ d.twitter = Absent /\ d.h1 # ""
                     /\ (d.title = "doc" => d.h1 = Absent)}
SomeDescriptionDocs ==
  {d \in DescriptionDocs : d.og \in {Absent, "og"} /\ d.twitter = Absent
                           /\ d.meta = Absent /\ d.paragraphs = <<>>}
SomeDomainDocs ==
  {[canonical |-> NoUrl, ogUrl |-> o] : o \in {NoUrl, RelativeUrl}}
SomeImgDocs ==
  {[og |-> Absent, link |-> Absent, twitter |-> Absent, imgs |-> i] :
     i \in {<<Img(40, 40, "icon", FALSE)>>, <<Img(200, 80, "photo", FALSE)>>}}
SomeDocs ==
  {[head |-> h, body |-> <<Node("script", Absent, <<>>)>>] :
     h \in {<<>>, <<Node("base", Absent, <<"/", "p">>)>>}}

(***************************************************************************)
(* The life cycle of a request: every step of serialize and screenshot.    *)
(***************************************************************************)
Navigate(r) ==
  \/ Call(r, Ops, RequestUrls)
  \/ NewPage(r)
  \/ SetViewport(r)
  \/ OperationSettles(r)
  \/ ResponseEvent(r, Responses)
  \/ Goto(r, Responses)
  \/ CloseEarly(r)

\* the preview branch after the title, and the end of every branch
AfterTitle(r) ==
  \/ EvalDescription(r, SomeDescriptionDocs)
  \/ EvalDomainName(r, SomeDomainDocs)
  \/ EvalImg(r, SomeImgDocs)
  \/ Close(r)

Sanitize(r) ==
  \/ EvalStripPage(r, SomeDocs)
  \/ EvalInjectBaseHref(r)
  \/ PageContent(r)

AfterHeader(r) ==
  \/ EvalTitle(r, SomeTitleDocs)
  \/ AfterTitle(r)
  \/ Sanitize(r)

Next ==
  \E r \in Reqs :
    \/ Navigate(r)
    \/ EvalStatus(r, SomeStatusMetas)
    \/ EvalHeader(r, SomeHeaderMetas)
    \/ AfterHeader(r)
    \/ Screenshot(r)

Spec == Init /\ [][Next]_vars

(***************************************************************************)
(* Specifications of one stage: they start where a navigation that passed  *)
(* the guard left the call, and draw the document of that stage from all   *)
(* the documents within the bounds.                                        *)
(***************************************************************************)
\* responses that pass the checks of lines 110 and 120
PassingResponses == {resp \in Responses : ~IsMetadataFlavor(resp)}

\* the page of a serialize call once goto has settled (lines 77-105)
NavigatedPage(isMobile, evals) ==
  [NoPage EXCEPT !.id = 1, !.opens = 1, !.viewport = TRUE, !.userAgent = isMobile,
                 !.polyfills = 3, !.listener = TRUE, !.gotos = 1,
                 !.evals = evals]

\* a call of serialize suspended at line 130, the status lookup
InitOverride ==
  /\ service = Serving
  /\ ctx = [r \in Reqs |-> NoRequest]
  /\ pc = [r \in Reqs |-> "evalStatus"]
  /\ call \in [Reqs -> [op : {"serialize", "preview"}, isMobile : {FALSE},
                        url : RequestUrls]]
  /\ response \in [Reqs -> PassingResponses]
  /\ page = [r \in Reqs |-> NavigatedPage(call[r].isMobile, 0)]
  /\ browser = PagesOpen(1)
  /\ nav = [r \in Reqs |->
              [events |-> 1, first |-> response[r], settled |-> "response"]]
  /\ statusCode = [r \in Reqs |-> response[r].status]
  /\ newStatusCode = [r \in Reqs |-> Undefined]
  /\ customHeaders = [r \in Reqs |-> NoMap]
  /\ preview = [r \in Reqs |-> NoPreview]
  /\ dom = [r \in Reqs |-> NoDom]
  /\ seen = [r \in Reqs |-> NothingSeen]
  /\ result = [r \in Reqs |-> NoResult]

NextOverride ==
  \E r \in Reqs :
    \/ EvalStatus(r, StatusMetas)
    \/ EvalHeader(r, SomeHeaderMetas)
    \/ AfterHeader(r)

SpecOverride == InitOverride /\ [][NextOverride]_vars

\* a call of serialize in preview mode suspended at line 168, getTitle
InitTitle ==
  /\ service = Serving
  /\ ctx = [r \in Reqs |-> NoRequest]
  /\ pc = [r \in Reqs |-> "getTitle"]
  /\ call \in [Reqs -> [op : {"preview"}, isMobile : BOOLEAN, url : RequestUrls]]
  /\ response \in [Reqs -> PassingResponses]
  /\ page = [r \in Reqs |-> NavigatedPage(call[r].isMobile, 2)]
  /\ browser = PagesOpen(1)
  /\ nav = [r \in Reqs |->
              [events |-> 1, first |-> response[r], settled |-> "response"]]
  /\ seen \in [Reqs -> {[NothingSeen EXCEPT !.status = m] : m \in SomeStatusMetas}]
  /\ newStatusCode = [r \in Reqs |-> StatusLookup(seen[r].status)]
  /\ statusCode = [r \in Reqs |->
                     OverrideStatus(response[r].status, newStatusCode[r])]
  /\ customHeaders = [r \in Reqs |-> HeaderLookup(seen[r].header)]
  /\ preview = [r \in Reqs |-> NoPreview]
  /\ dom = [r \in Reqs |-> NoDom]
  /\ result = [r \in Reqs |-> NoResult]

NextTitle ==
  \E r \in Reqs :
    \/ EvalTitle(r, TitleDocs)
    \/ AfterTitle(r)

SpecTitle == InitTitle /\ [][NextTitle]_vars

(***************************************************************************)
(* The image stage of a preview (line 171).                                *)
(***************************************************************************)
\* img elements: naturalWidth and naturalHeight around the limits of the
\* size filter, and a src with or without '//'
ImgSizes ==
  {<<40, 40>>, <<200, 80>>, <<153, 51>>, <<154, 51>>, <<51, 154>>, <<200, 50>>}
Imgs ==
  {Img(s[1], s[2], "a.png", FALSE) : s \in ImgSizes}
    \cup {Img(s[1], s[2], "//c/b.png", TRUE) : s \in ImgSizes}

\* the parts of a document getImg reads: the content of the og:image and
\* twitter:image metas, the href of the image_src link, the img elements
ImgDocs ==
  [og : {Absent, "", "og"}, link : {Absent, "", "link"},
   twitter : {Absent, "", "tw"}, imgs : SeqsOver(Imgs)]

\* a document whose title is its title element and nothing else
TitledDoc == [NoTitleDoc EXCEPT !.title = "doc"]

\* the fields of the preview once getTitle, getDescription and
\* getDomainName have settled on a document that names none of them
PreviewOf(uri) ==
  [title |-> GetTitle(TitledDoc).val,
   description |-> GetDescription(NoDescriptionDoc).val,
   domain |-> GetDomainName(NoDomainDoc, uri).val,
   img |-> Address(Null, "")]

\* a call of serialize in preview mode suspended at line 171, getImg
InitImg ==
  /\ service = Serving
  /\ ctx = [r \in Reqs |-> NoRequest]
  /\ pc = [r \in Reqs |-> "getImg"]
  /\ call \in [Reqs -> [op : {"preview"}, isMobile : {FALSE}, url : RequestUrls]]
  /\ response \in [Reqs -> PassingResponses]
  /\ page = [r \in Reqs |-> NavigatedPage(call[r].isMobile, 5)]
  /\ browser = PagesOpen(1)
  /\ nav = [r \in Reqs |->
              [events |-> 1, first |-> response[r], settled |-> "response"]]
  /\ seen = [r \in Reqs |-> [NothingSeen EXCEPT !.title = TitledDoc]]
  /\ newStatusCode = [r \in Reqs |-> StatusLookup(seen[r].status)]
  /\ statusCode = [r \in Reqs |->
                     OverrideStatus(response[r].status, newStatusCode[r])]
  /\ customHeaders = [r \in Reqs |-> HeaderLookup(seen[r].header)]
  /\ preview = [r \in Reqs |-> PreviewOf(call[r].url)]
  /\ dom = [r \in Reqs |-> NoDom]
  /\ result = [r \in Reqs |-> NoResult]

NextImg ==
  \E r \in Reqs :
    \/ EvalImg(r, ImgDocs)
    \/ Close(r)

SpecImg == InitImg /\ [][NextImg]_vars

(***************************************************************************)
(* The domain stage of a preview (line 170).                               *)
(***************************************************************************)
\* longest hostname a page names
MaxHost == 6

\* hostnames: labels of w and a separated by dots, none of them empty
HostChars == {"w", "a", "."}
IsHostname(h) ==
  /\ h # <<>> /\ h[1] # "." /\ h[Len(h)] # "."
  /\ \A i \in 1..(Len(h) - 1) : ~(h[i] = "." /\ h[i + 1] = ".")
Hostnames ==
  {h \in UNION {[1..n -> HostChars] : n \in 1..MaxHost} : IsHostname(h)}

\* an absolute http URL of a host; its text and origin are not spelled out
HttpUrl(hostname) == AbsoluteUrl("http://host/", "http://host", hostname)
\* a string that is no URL even against a base, as in href="http://"
InvalidUrl == Url(TRUE, "http://", FALSE, "", <<>>)

\* line 308: the href property of the canonical link is '' without the
\* attribute, the attribute resolved against the document, or the
\* attribute itself when it cannot be resolved
CanonicalHrefs == {NoUrl, EmptyUrl, InvalidUrl} \cup {HttpUrl(h) : h \in Hostnames}
\* line 312: the content of the og:url meta is what the page wrote
OgUrlContents ==
  {NoUrl, EmptyUrl, RelativeUrl, InvalidUrl} \cup {HttpUrl(h) : h \in Hostnames}

\* the parts of a document getDomainName reads; one of the two elements
\* ranges over every hostname while the other takes one value of each kind
DomainDocs ==
  {[canonical |-> c, ogUrl |-> o] :
     c \in CanonicalHrefs, o \in {NoUrl, EmptyUrl, RelativeUrl, HttpUrl(<<"a">>)}}
    \cup
  {[canonical |-> c, ogUrl |-> o] :
     c \in {NoUrl, EmptyUrl, HttpUrl(<<"a">>)}, o \in OgUrlContents}

\* requested URLs, one of them with www. inside its hostname
DomainRequestUrls ==
  RequestUrls \cup
    {AbsoluteUrl("http://a.www.a/", "http://a.www.a",
                 <<"a", ".", "w", "w", "w", ".", "a">>)}

\* a call of serialize in preview mode suspended at line 170,
\* getDomainName
InitDomain ==
  /\ service = Serving
  /\ ctx = [r \in Reqs |-> NoRequest]
  /\ pc = [r \in Reqs |-> "getDomainName"]
  /\ call \in [Reqs -> [op : {"preview"}, isMobile : {FALSE},
                        url : DomainRequestUrls]]
  /\ response \in [Reqs -> {resp \in PassingResponses : resp.flavor = Absent}]
  /\ page = [r \in Reqs |-> NavigatedPage(call[r].isMobile, 4)]
  /\ browser = PagesOpen(1)
  /\ nav = [r \in Reqs |->
              [events |-> 1, first |-> response[r], settled |-> "response"]]
  /\ seen = [r \in Reqs |-> [NothingSeen EXCEPT !.title = TitledDoc]]
  /\ newStatusCode = [r \in Reqs |-> StatusLookup(seen[r].status)]
  /\ statusCode = [r \in Reqs |->
                     OverrideStatus(response[r].status, newStatusCode[r])]
  /\ customHeaders = [r \in Reqs |-> HeaderLookup(seen[r].header)]
  /\ preview = [r \in Reqs |-> [PreviewOf(call[r].url) EXCEPT !.domain = <<>>]]
  /\ dom = [r \in Reqs |-> NoDom]
  /\ result = [r \in Reqs |-> NoResult]

NextDomain ==
  \E r \in Reqs :
    \/ EvalDomainName(r, DomainDocs)
    \/ EvalImg(r, SomeImgDocs)
    \/ Close(r)

SpecDomain == InitDomain /\ [][NextDomain]_vars

(***************************************************************************)
(* The header stage of serialize (lines 148-164).                          *)
(***************************************************************************)
\* a call of serialize, not in preview mode, suspended at line 149, the
\* header lookup
InitHeader ==
  /\ service = Serving
  /\ ctx = [r \in Reqs |-> NoRequest]
  /\ pc = [r \in Reqs |-> "evalHeader"]
  /\ call \in [Reqs -> [op : {"serialize"}, isMobile : {FALSE}, url : RequestUrls]]
  /\ response \in [Reqs -> PassingResponses]
  /\ page = [r \in Reqs |-> NavigatedPage(call[r].isMobile, 1)]
  /\ browser = PagesOpen(1)
  /\ nav = [r \in Reqs |->
              [events |-> 1, first |-> response[r], settled |-> "response"]]
  /\ seen \in [Reqs -> {[NothingSeen EXCEPT !.status = m] : m \in SomeStatusMetas}]
  /\ newStatusCode = [r \in Reqs |-> StatusLookup(seen[r].status)]
  /\ statusCode = [r \in Reqs |->
                     OverrideStatus(response[r].status, newStatusCode[r])]
  /\ customHeaders = [r \in Reqs |-> NoMap]
  /\ preview = [r \in Reqs |-> NoPreview]
  /\ dom = [r \in Reqs |-> NoDom]
  /\ result = [r \in Reqs |-> NoResult]

NextHeader ==
  \E r \in Reqs :
    \/ EvalHeader(r, HeaderMetas)
    \/ Sanitize(r)
    \/ Close(r)

SpecHeader == InitHeader /\ [][NextHeader]_vars

(***************************************************************************)
(* The sanitizer stage of serialize (lines 177-188), run on a document     *)
(* and then again on the markup the first run returned.                    *)
(***************************************************************************)
\* base hrefs: none or empty, path-relative with and without a leading
\* slash, protocol-relative, absolute
BaseHrefs ==
  {<<>>, <<"p">>, <<"/", "p">>, <<"/", "/", "c">>, <<"http://c", "/">>}

\* the elements of a head and of a body the sanitizer may meet
HeadNodes ==
  {Node("script", t, <<>>) : t \in {Absent, "text/javascript", "application/json"}}
    \cup {Node("link", rel, <<>>) : rel \in {"import", "stylesheet"}}
    \cup {Node("base", Absent, href) : href \in BaseHrefs}
BodyNodes ==
  {Node("script", Absent, <<>>), Node("script", "application/json", <<>>),
   Node("link", "import", <<>>)}
Docs == [head : SeqsOver(HeadNodes), body : SeqsOver(BodyNodes)]

\* the document a browser builds from the markup page.content() returned
Parsed(content) == [head |-> content[1], body |-> content[2]]

\* the call that serializes a page, and the call that serializes the page
\* the first call returned
SanitizeReqs == {"first", "again"}

\* two calls of serialize for the same URL suspended at line 178
InitSanitize ==
  /\ service = Serving
  /\ ctx = [r \in SanitizeReqs |-> NoRequest]
  /\ pc = [r \in SanitizeReqs |-> "stripPage"]
  /\ \E u \in RequestUrls :
       call = [r \in SanitizeReqs |->
                 [op |-> "serialize", isMobile |-> FALSE, url |-> u]]
  /\ response = [r \in SanitizeReqs |-> [isNull |-> FALSE, status |-> 200, flavor |-> Absent]]
  /\ page = [r \in SanitizeReqs |->
               [NavigatedPage(FALSE, 2) EXCEPT !.id = IF r = "first" THEN 1 ELSE 2]]
  /\ browser = PagesOpen(2)
  /\ nav = [r \in SanitizeReqs |->
              [events |-> 1, first |-> response[r], settled |-> "response"]]
  /\ seen = [r \in SanitizeReqs |-> NothingSeen]
  /\ newStatusCode = [r \in SanitizeReqs |-> StatusLookup(seen[r].status)]
  /\ statusCode = [r \in SanitizeReqs |->
                     OverrideStatus(response[r].status, newStatusCode[r])]
  /\ customHeaders = [r \in SanitizeReqs |-> HeaderLookup(seen[r].header)]
  /\ preview = [r \in SanitizeReqs |-> NoPreview]
  /\ dom = [r \in SanitizeReqs |-> NoDom]
  /\ result = [r \in SanitizeReqs |-> NoResult]

\* the second call is served the markup the first call returned
Reserialize ==
  /\ pc["first"] = "returned"
  /\ EvalStripPage("again", {Parsed(result["first"].content)})

NextSanitize ==
  \/ EvalStripPage("first", Docs)
  \/ Reserialize
  \/ \E r \in SanitizeReqs : EvalInjectBaseHref(r) \/ PageContent(r) \/ Close(r)

SpecSanitize == InitSanitize /\ [][NextSanitize]_vars

(***************************************************************************)
(* Two requests in flight on the same browser handle: every step of both,  *)
(* in any order, on pages that name none of the things the stages read.    *)
(* The completions of the unawaited setup operations, which no call reads, *)
(* are left out.                                                           *)
(***************************************************************************)
ConcurrentReqs == {"r1", "r2"}

\* responses that differ in status and in what the guard makes of them
ConcurrentResponses ==
  {resp \in Responses : resp.status \in {200, 500} /\ resp.flavor # "google"
                        /\ (resp.flavor = "Google" => resp.status = 200)}

\* two calls, of any two operations, suspended at lines 77 and 327,
\* browser.newPage()
InitConcurrent ==
  /\ service = Serving
  /\ ctx = [r \in ConcurrentReqs |-> NoRequest]
  /\ browser = PagesOpen(0)
  /\ pc = [r \in ConcurrentReqs |-> "newPage"]
  /\ call \in [ConcurrentReqs ->
                 [op : Ops, isMobile : {FALSE}, url : {HttpUrl(<<"a">>)}]]
  /\ page = [r \in ConcurrentReqs |-> NoPage]
  /\ response = [r \in ConcurrentReqs |-> NullResponse]
  /\ nav = [r \in ConcurrentReqs |-> NoNav]
  /\ statusCode = [r \in ConcurrentReqs |-> 0]
  /\ newStatusCode = [r \in ConcurrentReqs |-> Undefined]
  /\ customHeaders = [r \in ConcurrentReqs |-> NoMap]
  /\ preview = [r \in ConcurrentReqs |-> NoPreview]
  /\ dom = [r \in ConcurrentReqs |-> NoDom]
  /\ seen = [r \in ConcurrentReqs |-> NothingSeen]
  /\ result = [r \in ConcurrentReqs |-> NoResult]

NavigateConcurrent(r) ==
  \/ NewPage(r)
  \/ SetViewport(r)
  \/ ResponseEvent(r, ConcurrentResponses)
  \/ Goto(r, ConcurrentResponses)
  \/ CloseEarly(r)

EvaluateConcurrent(r) ==
  \/ EvalStatus(r, {NoElement})
  \/ EvalHeader(r, {NoElement})
  \/ EvalTitle(r, {TitledDoc})
  \/ EvalDescription(r, {NoDescriptionDoc})
  \/ EvalDomainName(r, {NoDomainDoc})
  \/ EvalImg(r, {NoImgDoc})
  \/ EvalStripPage(r, {NoDom})
  \/ EvalInjectBaseHref(r)
  \/ PageContent(r)
  \/ Screenshot(r)
  \/ Close(r)

NextConcurrent ==
  \E r \in ConcurrentReqs : NavigateConcurrent(r) \/ EvaluateConcurrent(r)

SpecConcurrent == InitConcurrent /\ [][NextConcurrent]_vars

(***************************************************************************)
(* The Rendertron service and its browsers (rendertron.ts lines 26-34,     *)
(* 183-190).  service.browsers holds a state for every browser process     *)
(* puppeteer.launch started; service.current is the one this.browser       *)
(* refers to, 0 for undefined; service.launching counts the calls of       *)
(* puppeteer.launch that have not settled.                                 *)
(***************************************************************************)
\* most browsers launched in the life of the service
MaxBrowsers == 4

\* the state of the requests and of the renderer, which the service
\* steps leave alone
rendererVars ==
  <<ctx, browser, pc, call, page, response, nav, statusCode, newStatusCode,
    customHeaders, preview, dom, seen, result>>

\* the service after construction: nothing launched
Constructed ==
  [token |-> NoToken, started |-> FALSE, browsers |-> <<>>, current |-> 0,
   launching |-> 0, cleanup |-> "idle", target |-> 0]

\* lines 26-27: createRenderer calls puppeteer.launch, which starts a
\* browser process, and awaits it
CreateRenderer(s) == [s EXCEPT !.launching = @ + 1]

\* lines 29-31: the disconnected handler registered on every browser
OnDisconnected(s) == CreateRenderer(s)

\* lines 36-72: initialize() calls createRenderer
Initialize ==
  /\ ~service.started
  /\ service' = CreateRenderer([service EXCEPT !.started = TRUE])
  /\ UNCHANGED rendererVars

\* lines 27-33: puppeteer.launch settles; this.browser is the new browser,
\* the handler is registered on it and the renderer is built on it
LaunchSettles ==
  /\ service.launching > 0
  /\ Len(service.browsers) < MaxBrowsers
  /\ service' = [service EXCEPT !.browsers = Append(@, "running"),
                                !.current = Len(service.browsers) + 1,
                                !.launching = @ - 1]
  /\ UNCHANGED rendererVars

\* lines 29-31: a running browser crashes or loses its connection; its
\* disconnected handler runs
Disconnect ==
  \E b \in 1..Len(service.browsers) :
    /\ service.browsers[b] = "running"
    /\ service' = OnDisconnected([service EXCEPT !.browsers[b] = "closed"])
    /\ UNCHANGED rendererVars

\* lines 183-185: cleanup() is called; it closes this.browser, if there is
\* one, and awaits the close
Cleanup ==
  /\ service.cleanup = "idle"
  /\ service' = [service EXCEPT !.cleanup = "closing", !.target = service.current]
  /\ UNCHANGED rendererVars

\* line 185: the close settles; a browser that was running is closed and
\* emits disconnected, so its handler runs
CloseSettles ==
  /\ service.cleanup = "closing"
  /\ LET b == service.target
         closed == [service EXCEPT !.cleanup = "kill"]
     IN service' =
          IF b # 0 /\ service.browsers[b] = "running"
          THEN OnDisconnected([closed EXCEPT !.browsers[b] = "closed"])
          ELSE closed
  /\ UNCHANGED rendererVars

\* lines 187-189: the process of whatever this.browser is by now is
\* killed; a browser that was running emits disconnected
Treekill ==
  /\ service.cleanup = "kill"
  /\ LET b == service.current
         done == [service EXCEPT !.cleanup = "done"]
     IN service' =
          IF b # 0 /\ service.browsers[b] = "running"
          THEN OnDisconnected([done EXCEPT !.browsers[b] = "killed"])
          ELSE done
  /\ UNCHANGED rendererVars

InitService == service = Constructed /\ InitRenderer

NextService ==
  \/ Initialize
  \/ LaunchSettles
  \/ Disconnect
  \/ Cleanup
  \/ CloseSettles
  \/ Treekill

SpecService == InitService /\ [][NextService]_vars

(***************************************************************************)
(* The request handlers (rendertron.ts lines 78-181): the checks they make *)
(* before they call the renderer, and the status they answer with.         *)
(***************************************************************************)
\* longest scheme of a requested URL
MaxProtocol == 5

\* what url.parse(href).protocol || '' can be: '' for a URL without a
\* scheme, else the scheme, in lower case, and its colon
ProtocolChars == {"h", "t", "p", "s", "f"}
Protocols ==
  {<<>>} \cup
    {scheme \o <<":">> :
       scheme \in UNION {[1..n -> ProtocolChars] : n \in 1..MaxProtocol}}

\* the token the service is configured with, and the token header of a
\* request
ConfigTokens == {NoToken, "secret"}
RequestTokens == {NoToken, "secret", "wrong"}

\* rendertron.ts lines 78-87: the regular expression /^https?/ matches a
\* protocol that begins with http, whatever follows
Restricted(protocol) ==
  ~(Len(protocol) >= 4 /\ SubSeq(protocol, 1, 4) = <<"h", "t", "t", "p">>)

\* rendertron.ts lines 89-91
Authorized(token, configured) == token = configured

\* rendertron.ts lines 93-105, 119-132, 144-168: a request reaches the
\* handler of its route; the handler answers 403, or calls serialize or
\* screenshot with the URL (here a URL of host a, whatever its scheme)
Handle(r) ==
  /\ pc[r] = "idle"
  /\ ctx[r].handler = "none"
  /\ \E op \in Ops, protocol \in Protocols, token \in RequestTokens :
       LET request == [handler |-> op, protocol |-> protocol,
                       token |-> token, status |-> 404]
       IN IF Restricted(protocol) \/ ~Authorized(token, service.token)
          THEN /\ ctx' = [ctx EXCEPT ![r] = [request EXCEPT !.status = 403]]
               /\ pc' = [pc EXCEPT ![r] = "refused"]
               /\ UNCHANGED call
          ELSE /\ ctx' = [ctx EXCEPT ![r] = request]
               /\ \E m \in BOOLEAN :
                    call' = [call EXCEPT ![r] =
                               [op |-> op, isMobile |-> m, url |-> HttpUrl(<<"a">>)]]
               /\ pc' = [pc EXCEPT ![r] = "newPage"]
  /\ UNCHANGED <<service, browser, page, response, nav, locals, result>>

\* rendertron.ts lines 107-116, 134-141, 166-180: the call has ended; the
\* render and preview handlers answer with the status it returned and
\* reject when it threw, the screenshot handler maps its outcome
Respond(r) ==
  /\ pc[r] \in {"returned", "threw"}
  /\ ctx[r].handler # "none"
  /\ IF ctx[r].handler = "screenshot"
     THEN /\ ctx' = [ctx EXCEPT ![r].status = ScreenshotAnswer(result[r])]
          /\ pc' = [pc EXCEPT ![r] = "answered"]
     ELSE IF pc[r] = "returned"
     THEN /\ ctx' = [ctx EXCEPT ![r].status = result[r].status]
          /\ pc' = [pc EXCEPT ![r] = "answered"]
     ELSE /\ pc' = [pc EXCEPT ![r] = "rejected"]
          /\ UNCHANGED ctx
  /\ UNCHANGED <<service, browser, call, page, response, nav, locals, result>>

\* a service that has launched its browser, with or without a token, and
\* a request that has not reached its handler
InitHandler ==
  /\ service \in {[Serving EXCEPT !.token = t] : t \in ConfigTokens}
  /\ InitRenderer

NextHandler ==
  \E r \in Reqs :
    \/ Handle(r)
    \/ NavigateConcurrent(r)
    \/ EvaluateConcurrent(r)
    \/ Respond(r)

SpecHandler == InitHandler /\ [][NextHandler]_vars

(***************************************************************************)
(* Properties.                                                             *)
(***************************************************************************)
\* the call has ended
Terminal(r) == pc[r] \in {"returned", "threw"}
\* serialize returned a SerializedResponse or a PreviewResponse
Answered(r) == pc[r] = "returned" /\ result[r].kind \in {"serialized", "preview"}
\* goto has settled and the guard of line 120 let the response through
Passed(r) ==
  /\ nav[r].settled # "pending"
  /\ ~response[r].isNull
  /\ response[r].flavor # "Google"

\* C1: every call whose navigation settled, on any of the four branches,
\* and in which the engine rejected no operation, has opened exactly one
\* page and closed it exactly once when it ends.
C1_OneOpenOneClose ==
  \A r \in Reqs :
    Terminal(r) /\ nav[r].settled # "pending" /\ result[r].error # "EngineError"
      => page[r].opens = 1 /\ page[r].closes = 1

\* C2: no call ends, by returning or by an exception of a step after the
\* page was opened, with its page still open.
C2_ClosedOnEveryExit ==
  \A r \in Reqs : Terminal(r) => page[r].closes = page[r].opens

\* C3: once the navigation has settled with a response whose
\* metadata-flavor header is Google, nothing is evaluated in the page and no
\* screenshot is taken; the page is closed once and serialize returns 403
\* with no header and no content, screenshot fails with Forbidden.
C3_MetadataGuard ==
  \A r \in Reqs :
    nav[r].settled # "pending" /\ response[r].flavor = "Google"
      => /\ page[r].evals = 0 /\ page[r].shots = 0
         /\ pc[r] \in {"closeForbidden", "returned", "threw"}
         /\ Terminal(r) =>
              /\ page[r].closes = 1
              /\ result[r] = IF IsSerialize(r) THEN Serialized(403, {}, <<>>)
                             ELSE Failure("Forbidden")

\* C3 witness: a serialize call whose navigation timed out after a
\* Google-flavored response was retained has returned
C3_Witness ==
  \E r \in Reqs :
    /\ pc[r] = "returned" /\ IsSerialize(r)
    /\ nav[r].settled = "failed" /\ response[r].flavor = "Google"

\* C4 as claimed: a retained response with status 304 is always answered
\* with status 200.
C4_NotModifiedIsAlwaysOk ==
  \A r \in Reqs :
    Answered(r) /\ response[r].status = 304 => result[r].status = 200

\* C4 amended: a retained response with status 304 that passed the guard is
\* answered with 200 unless the render:status_code lookup yields a non-zero
\* integer, and then with that integer.
C4_NotModifiedIsOkUnlessOverridden ==
  \A r \in Reqs :
    Answered(r) /\ Passed(r) /\ response[r].status = 304
      => LET n == newStatusCode[r]
         IN /\ n = StatusLookup(seen[r].status)
            /\ result[r].status = IF n.kind = "number" /\ n.val # 0 THEN n.val ELSE 200

\* C4 witness: a 304 page whose tag says 404 is answered with 404
C4_Witness ==
  \E r \in Reqs :
    /\ Answered(r) /\ Passed(r) /\ response[r].status = 304
    /\ seen[r].status = Element(<<"4", "0", "4">>) /\ result[r].status = 404

\* C5: a baseline status other than 200 is the status returned, whatever
\* the render:status_code meta tag says.
C5_OtherBaselineKept ==
  \A r \in Reqs :
    Answered(r) /\ Passed(r) /\ response[r].status \notin {200, 304}
      => result[r].status = response[r].status

\* C5 witness: a 500 page that carries a usable status override
C5_Witness ==
  \E r \in Reqs :
    /\ Answered(r) /\ Passed(r) /\ response[r].status = 500
    /\ seen[r].status = Element(<<"4", "0", "4">>)

\* a content that is a decimal integer and nothing else, and its value
IsDigit(c) == c \in {"0", "4"}
IsInteger(s) ==
  LET digits == IF s # <<>> /\ Head(s) = "-" THEN Tail(s) ELSE s
  IN digits # <<>> /\ \A i \in 1..Len(digits) : IsDigit(digits[i])
IntegerValue(s) ==
  IF Head(s) = "-" THEN 0 - DigitsValue(Tail(s), 10, 0) ELSE DigitsValue(s, 10, 0)

\* the baseline status of the call is 200
BaselineOk(r) == Passed(r) /\ response[r].status \in {200, 304}

\* C6 as claimed: with baseline 200, a tag whose content is an integer n
\* gives status n; an absent tag or any other content gives 200.
C6_IntegerOrOk ==
  \A r \in Reqs :
    Answered(r) /\ BaselineOk(r)
      => LET m == seen[r].status
         IN result[r].status =
              IF m.present /\ IsInteger(m.content) THEN IntegerValue(m.content)
              ELSE 200

\* C6 amended: with baseline 200, the status is the integer parseInt reads
\* at the start of the content when that is not 0 (so a non-zero integer n
\* gives n), and 200 when the tag is absent or parseInt yields NaN or 0.
C6_ParsedNonZeroOrOk ==
  \A r \in Reqs :
    Answered(r) /\ BaselineOk(r)
      => LET m == seen[r].status
             n == newStatusCode[r]
         IN /\ m.present /\ IsInteger(m.content) /\ IntegerValue(m.content) # 0
                 => result[r].status = IntegerValue(m.content)
            /\ n.kind = "number" /\ n.val # 0 => result[r].status = n.val
            /\ ~m.present \/ n.kind # "number" \/ n.val = 0
                 => result[r].status = 200

\* C6 witness: baseline 200 and content "404" answered with 404
C6_Witness ==
  \E r \in Reqs :
    /\ Answered(r) /\ BaselineOk(r)
    /\ seen[r].status = Element(<<"4", "0", "4">>) /\ result[r].status = 404

\* C7: the status of every response serialize returns is a valid HTTP
\* status.
C7_ValidHttpStatus ==
  \A r \in Reqs : Answered(r) => result[r].status \in 100..599

\* C8: when goto failed after a response event, the response the call
\* works with is the first one delivered, and the call goes on to the guard
\* and the stages after it: it does not take the no-response exit, and the
\* failure of the navigation is not what it ends with.
C8_FirstResponseKept ==
  \A r \in Reqs :
    IsSerialize(r) /\ nav[r].settled = "failed" /\ nav[r].events >= 1
      => /\ response[r] = nav[r].first
         /\ ~response[r].isNull
         /\ pc[r] # "closeNoResponse"
         /\ result[r] # Serialized(400, {}, <<>>)
         /\ (response[r].flavor # "Google") => (pc[r] # "closeForbidden")
         /\ Answered(r) /\ response[r].flavor # "Google" /\ response[r].status = 500
              => result[r].status = 500

\* C8 witness: the navigation failed after two different responses, and
\* the call returned an answer built from the first
C8_Witness ==
  \E r \in Reqs :
    /\ nav[r].settled = "failed" /\ nav[r].events = 2
    /\ Answered(r) /\ result[r].status = 500

\* C9: when goto has settled and no response is retained, serialize
\* evaluates nothing in the page, closes the page and returns 400 with no
\* header and no content.
C9_NoResponse ==
  \A r \in Reqs :
    IsSerialize(r) /\ nav[r].settled # "pending" /\ response[r].isNull
      => /\ page[r].evals = 0
         /\ pc[r] \in {"closeNoResponse", "returned"}
         /\ pc[r] = "returned" =>
              /\ result[r] = Serialized(400, {}, <<>>)
              /\ page[r].opens = 1 /\ page[r].closes = 1

\* C9 witness: the navigation failed with no response event, 400 returned
C9_Witness ==
  \E r \in Reqs :
    /\ IsSerialize(r) /\ nav[r].settled = "failed" /\ nav[r].events = 0
    /\ pc[r] = "returned" /\ result[r].status = 400 /\ page[r].closes = 1

\* the first entry of a waterfall that is there and not empty, else null
RECURSIVE FirstNonEmpty(_)
FirstNonEmpty(values) ==
  IF values = <<>> THEN Null
  ELSE IF Head(values) \notin {Absent, ""} THEN Head(values)
  ELSE FirstNonEmpty(Tail(values))

\* getTitle of a preview call has settled (it is the third evaluation)
TitleSettled(r) == call[r].op = "preview" /\ page[r].evals >= 3

\* C10: the title is the first non-empty of og:title, twitter:title, the
\* document title and the first h1, null when there is none, and the call
\* does not fail over a lookup that finds nothing.
C10_TitleWaterfall ==
  \A r \in Reqs :
    TitleSettled(r)
      => LET d == seen[r].title
         IN /\ ~(page[r].evals = 3 /\ result[r].error = "TypeError")
            /\ preview[r].title = FirstNonEmpty(<<d.og, d.twitter, d.title, d.h1>>)

\* getImg of a preview call has settled (it is the sixth evaluation)
ImgSettled(r) == call[r].op = "preview" /\ page[r].evals >= 6

\* what the size filter lets through: neither side more than three times
\* the other, both sides above 50 pixels
Acceptable(img) ==
  /\ ~(img.w > 3 * img.h) /\ ~(img.h > 3 * img.w)
  /\ img.h > 50 /\ img.w > 50

\* the source of the first acceptable img in document order, else null
FirstAcceptableSrc(imgs) ==
  LET ok == {i \in 1..Len(imgs) : Acceptable(imgs[i])}
  IN IF ok = {} THEN Null
     ELSE imgs[CHOOSE i \in ok : \A j \in ok : i <= j].src

\* no og:image, image_src or twitter:image value, and img elements
OnlyImgElements(d) ==
  /\ d.og \in {Absent, ""} /\ d.link \in {Absent, ""}
  /\ d.twitter \in {Absent, ""}
  /\ Len(d.imgs) > 0

\* C11: when none of og:image, image_src and twitter:image yields a value
\* and the page has img elements, the image is the source of the first img
\* in document order that the size filter keeps, and it is null when the
\* filter keeps none; the extraction does not fail.
C11_FirstAcceptableImgOrNull ==
  \A r \in Reqs :
    ImgSettled(r) /\ OnlyImgElements(seen[r].img)
      => /\ result[r].error # "TypeError"
         /\ preview[r].img.text = FirstAcceptableSrc(seen[r].img.imgs)

\* the part of C11 the code keeps: whenever the filter keeps an img, the
\* image is the source of the first one kept
C11_FirstAcceptableImg ==
  \A r \in Reqs :
    /\ ImgSettled(r) /\ OnlyImgElements(seen[r].img)
    /\ FirstAcceptableSrc(seen[r].img.imgs) # Null
    => /\ result[r].error # "TypeError"
       /\ preview[r].img.text = FirstAcceptableSrc(seen[r].img.imgs)

\* every img is filtered out and the extraction threw
C11_AllExcludedThrows ==
  \E r \in Reqs :
    /\ ImgSettled(r) /\ OnlyImgElements(seen[r].img)
    /\ FirstAcceptableSrc(seen[r].img.imgs) = Null
    /\ result[r].error = "TypeError"

\* getDomainName of a preview call has settled (it is the fifth
\* evaluation), and whether it is what made the call fail
DomainSettled(r) == call[r].op = "preview" /\ page[r].evals >= 5
DomainFailed(r) == page[r].evals = 5 /\ result[r].error = "TypeError"

\* C12: for a valid requested URL and every content of the canonical link
\* and of the og:url meta, domain extraction does not fail and the domain
\* is not null.
C12_DomainNeverFails ==
  \A r \in Reqs :
    DomainSettled(r) /\ call[r].url.parses
      => ~DomainFailed(r) /\ preview[r].domain # <<>>

\* the URL the page names for itself is relative or no URL at all, and
\* the call failed
C12_UnparseableThrows ==
  \E r \in Reqs :
    /\ DomainSettled(r) /\ DomainFailed(r)
    /\ seen[r].domain.canonical \in {NoUrl, EmptyUrl}
    /\ seen[r].domain.ogUrl = RelativeUrl

\* the part of C12 the code keeps: with neither element, or both empty,
\* the domain comes from the requested URL
C12_FallsBackWhenUnnamed ==
  \A r \in Reqs :
    /\ DomainSettled(r)
    /\ seen[r].domain.canonical \in {NoUrl, EmptyUrl}
    /\ seen[r].domain.ogUrl \in {NoUrl, EmptyUrl}
    => ~DomainFailed(r) /\ preview[r].domain # <<>>

\* a hostname without a leading www.
StripLeadingWww(h) ==
  IF Len(h) >= 4 /\ SubSeq(h, 1, 4) = <<"w", "w", "w", ".">>
  THEN SubSeq(h, 5, Len(h)) ELSE h

\* the hostname of the first of canonical link, og:url and requested URL
\* that is there and not empty
ChosenHostname(r) ==
  LET d == seen[r].domain
  IN IF d.canonical.present /\ d.canonical.text # "" THEN d.canonical.hostname
     ELSE IF d.ogUrl.present /\ d.ogUrl.text # "" THEN d.ogUrl.hostname
     ELSE call[r].url.hostname

\* C13: the domain is the hostname of the chosen URL without a leading
\* www.; a hostname that does not start with www. is returned unchanged.
C13_LeadingWwwStripped ==
  \A r \in Reqs :
    DomainSettled(r) /\ ~DomainFailed(r)
      => preview[r].domain = StripLeadingWww(ChosenHostname(r))

\* the part of C13 the code keeps: hostnames that have no www. after
\* their first character
C13_StrippedWhenNoInnerWww ==
  \A r \in Reqs :
    /\ DomainSettled(r) /\ ~DomainFailed(r)
    /\ \A i \in 2..Len(ChosenHostname(r)) : ~IsAt(ChosenHostname(r), WwwDot, i)
    => preview[r].domain = StripLeadingWww(ChosenHostname(r))

\* t is s without the spaces at its two ends
IsTrimOf(t, s) ==
  /\ t = <<>> \/ (t[1] # " " /\ t[Len(t)] # " ")
  /\ \E a, b \in 0..Len(s) :
       /\ a + b <= Len(s)
       /\ t = SubSeq(s, a + 1, Len(s) - b)
       /\ \A k \in 1..a : s[k] = " "
       /\ \A k \in (Len(s) - b + 1)..Len(s) : s[k] = " "

\* the positions of the colons of a content
Colons(s) == {i \in 1..Len(s) : s[i] = ":"}

\* the entry is the content split at its first colon, both parts trimmed
IsSplitAtFirstColon(entry, s) ==
  \E i \in Colons(s) :
    /\ \A j \in Colons(s) : i <= j
    /\ IsTrimOf(entry[1], SubSeq(s, 1, i - 1))
    /\ IsTrimOf(entry[2], SubSeq(s, i + 1, Len(s)))

\* C14: the custom headers serialize returns hold at most one entry; when
\* the content of the first render:header meta has a colon, it is the
\* trimmed text before the first colon mapped to the trimmed text after
\* it; without the tag, or with a content that is empty or has no colon,
\* there is none.
C14_OneHeaderSplitAtFirstColon ==
  \A r \in Reqs :
    pc[r] = "returned" /\ result[r].kind = "serialized" /\ page[r].evals > 0
      => LET meta == seen[r].header
             headers == result[r].customHeaders
         IN /\ Cardinality(headers) <= 1
            /\ meta.present /\ Colons(meta.content) # {}
                 => /\ Cardinality(headers) = 1
                    /\ \A e \in headers : IsSplitAtFirstColon(e, meta.content)
            /\ ~meta.present \/ Colons(meta.content) = {} => headers = {}

\* C14 witness: a content with two colons and a space was returned as one
\* header whose value keeps the second colon
C14_Witness ==
  \E r \in Reqs :
    /\ pc[r] = "returned" /\ result[r].kind = "serialized"
    /\ seen[r].header = Element(<<"k", ":", ":">>)
    /\ result[r].customHeaders = {<< <<"k">>, <<":">> >>}

\* C15: a screenshot call whose navigation left no response fails with
\* NoResponse, and one whose response carries Metadata-Flavor: Google
\* fails with Forbidden; in both cases the page has been closed when the
\* failure is signalled, not before and not after, and nothing was
\* captured.
C15_ScreenshotFailsAfterClose ==
  \A r \in DOMAIN pc :
    call[r].op = "screenshot" /\ nav[r].settled # "pending"
      /\ (response[r].isNull \/ response[r].flavor = "Google")
      => /\ pc[r] \in {"closeNoResponse", "closeForbidden", "threw"}
         /\ pc[r] = "closeNoResponse" <=> result[r].kind = "none" /\ response[r].isNull
         /\ pc[r] = "threw" =>
              /\ result[r] = Failure(IF response[r].isNull THEN "NoResponse"
                                     ELSE "Forbidden")
              /\ page[r].closes = 1
         /\ pc[r] # "threw" => result[r].kind = "none" /\ page[r].closes = 0
         /\ page[r].shots = 0

\* C15 witness: a screenshot of the metadata server failed with Forbidden
\* after its page was closed
C15_Witness ==
  \E r \in DOMAIN pc :
    /\ call[r].op = "screenshot" /\ response[r].flavor = "Google"
    /\ pc[r] = "threw" /\ result[r].error = "Forbidden"
    /\ page[r].closes = 1 /\ page[r].shots = 0

\* C16: serializing the markup a first serialize returned, for the same
\* URL, returns that markup unchanged: the sanitizer finds nothing left to
\* strip and no base href left to patch.
C16_SanitizerIdempotent ==
  pc["again"] = "returned" /\ result["again"].kind = "serialized"
    => result["again"].content = result["first"].content

\* C16 witness: the first run stripped a script and patched a
\* path-relative base href, and the second run has returned
C16_Witness ==
  /\ pc["again"] = "returned" /\ result["again"].kind = "serialized"
  /\ seen["first"].doc.head =
       <<Node("script", Absent, <<>>), Node("base", Absent, <<"/", "p">>)>>
  /\ result["first"].content[1] =
       <<Node("base", Absent, <<call["first"].url.origin, "/", "p">>)>>

\* what a call works on and keeps: its position, its page, the response it
\* retained, its navigation, its status and its result
Kept(r) == <<pc[r], page[r], response[r], nav[r], statusCode[r], result[r]>>

\* every call whose page is open holds a page of its own, which nobody
\* else has closed
OwnPages ==
  \A r \in DOMAIN pc :
    page[r].opens > page[r].closes
      => /\ page[r].id \in browser.open
         /\ \A q \in DOMAIN pc \ {r} : page[q].opens > 0 => page[q].id # page[r].id

\* C17: under any interleaving of two calls on one browser handle, no step
\* (a page event, a settled navigation, an evaluation, a close) changes
\* what two calls keep, and each call's page stays its own until that call
\* closes it.
C17_RequestsIsolated ==
  [][/\ \A r, q \in DOMAIN pc : Kept(r)' # Kept(r) /\ Kept(q)' # Kept(q) => r = q
     /\ OwnPages']_vars

\* C17 witness: two serialize calls ran side by side on two pages, each
\* saw a response of its own, and each returned its own status
C17_Witness ==
  /\ call["r1"].op = "serialize" /\ call["r2"].op = "serialize"
  /\ nav["r1"].first.status = 200 /\ nav["r2"].first.status = 500
  /\ pc["r1"] = "returned" /\ result["r1"].status = 200
  /\ pc["r2"] = "returned" /\ result["r2"].status = 500
  /\ browser.created = 2 /\ browser.open = {}

\* a step in which a call starts the navigation of its page
StartsNavigation(r) == page[r].gotos' > page[r].gotos

\* C18: when the navigation to the target URL starts, the viewport, the
\* mobile user agent (for a mobile request) and, in serialize, the three
\* polyfill flags have been set and these operations have completed.
C18_SetupCompletedBeforeNavigation ==
  [][\A r \in DOMAIN pc :
       StartsNavigation(r)
         => /\ page[r].viewport'
            /\ page[r].userAgent' = call[r].isMobile
            /\ page[r].polyfills' = (IF IsSerialize(r) THEN 3 ELSE 0)
            /\ page[r].pending' = 0]_vars

\* the part of C18 the code keeps: setViewport has completed, and the user
\* agent and the polyfill flags have been requested, when goto is called
C18_SetupRequestedBeforeNavigation ==
  [][\A r \in DOMAIN pc :
       StartsNavigation(r)
         => /\ page[r].viewport'
            /\ page[r].userAgent' = call[r].isMobile
            /\ page[r].polyfills' = (IF IsSerialize(r) THEN 3 ELSE 0)]_vars

\* C19: a screenshot call whose navigation failed keeps no response,
\* whatever responses its page had received, captures nothing and ends in
\* the NoResponse failure, which the screenshot handler answers with 500.
C19_FailedScreenshotIsNoResponse ==
  \A r \in DOMAIN pc :
    call[r].op = "screenshot" /\ nav[r].settled = "failed"
      => /\ response[r].isNull
         /\ page[r].shots = 0
         /\ pc[r] \in {"closeNoResponse", "threw"}
         /\ pc[r] = "threw" =>
              /\ result[r] = Failure("NoResponse")
              /\ ScreenshotAnswer(result[r]) = 500

\* C19 witness: the main response had arrived when the navigation of a
\* screenshot call failed, and the call ended in NoResponse
C19_Witness ==
  \E r \in DOMAIN pc :
    /\ call[r].op = "screenshot" /\ nav[r].settled = "failed"
    /\ nav[r].events > 0 /\ nav[r].first.status = 200
    /\ nav[r].first.flavor = Absent
    /\ pc[r] = "threw" /\ result[r].error = "NoResponse"
    /\ ScreenshotAnswer(result[r]) = 500

\* a browser process of the service is running or being launched
BrowserAlive ==
  \/ service.launching > 0
  \/ \E b \in 1..Len(service.browsers) : service.browsers[b] = "running"

\* cleanup() has closed the browser that was running when it was called
CleanupClosedBrowser ==
  /\ service.cleanup = "done"
  /\ service.target # 0 /\ service.browsers[service.target] = "closed"

\* C20: once cleanup has closed the browser and finished, no browser
\* process of the service is running and none is being launched.
C20_NoBrowserAfterCleanup == CleanupClosedBrowser => ~BrowserAlive

\* cleanup closed the only browser the service had launched, and a second
\* one is running
C20_RelaunchedByCleanup ==
  /\ CleanupClosedBrowser
  /\ service.browsers = <<"closed", "running">>

\* the protocol is http: or https:
IsHttpOrHttps(protocol) ==
  protocol \in {<<"h", "t", "t", "p", ":">>, <<"h", "t", "t", "p", "s", ":">>}

\* the handler answered 403 and never called the renderer
Refused(r) ==
  /\ pc[r] = "refused" /\ ctx[r].status = 403
  /\ call[r] = NoCall /\ page[r].opens = 0

\* C21: the handlers call the renderer, which opens a page, only for a
\* request whose URL has the protocol http: or https: and whose token is
\* the configured one; every other request is answered 403 and no page is
\* ever opened for it.
C21_OnlyHttpAndTokenReachRenderer ==
  \A r \in DOMAIN pc :
    ctx[r].handler # "none"
      /\ ~(IsHttpOrHttps(ctx[r].protocol) /\ ctx[r].token = service.token)
      => Refused(r)

\* the part of C21 the code keeps: a request whose protocol does not begin
\* with http, or whose token is not the configured one, is refused
C21_OnlyHttpPrefixAndTokenReachRenderer ==
  \A r \in DOMAIN pc :
    ctx[r].handler # "none"
      /\ ~(/\ Len(ctx[r].protocol) >= 4
           /\ \A i \in 1..4 : ctx[r].protocol[i] = <<"h", "t", "t", "p">>[i]
           /\ ctx[r].token = service.token)
      => Refused(r)

\* a page was opened for a URL whose protocol is neither http: nor https:
C21_PageOpenedForOtherProtocol ==
  \E r \in DOMAIN pc :
    /\ ctx[r].handler # "none" /\ page[r].opens = 1
    /\ ~IsHttpOrHttps(ctx[r].protocol)

\* a request with http: or https: and the configured token was answered
\* with the 200 its call returned
C21_ServedWithToken ==
  \E r \in DOMAIN pc :
    /\ IsHttpOrHttps(ctx[r].protocol) /\ ctx[r].token = "secret"
    /\ pc[r] = "answered" /\ ctx[r].status = 200

====
